---- MODULE Spec2Model ----
(***************************************************************************)
(* Model of the vtgate Resolver (re-resolve-and-retry loop over            *)
(* ScatterConn), of its string helpers StrsEquals / insertSqlClause /      *)
(* buildEntityIds, and of the topology it reads.                           *)
(*                                                                         *)
(* A Go string is modelled as the sequence of its bytes (ASCII codes), so  *)
(* that sort.Strings, strings.ToLower, strings.Index and slicing are       *)
(* computed, not assumed.                                                  *)
(***************************************************************************)
EXTENDS Integers, Sequences, FiniteSets, TLC

VARIABLES
    op,          \* the Resolver operation being called
    pc,          \* position of the call inside the operation
    keyspace,    \* the call's current keyspace (keyspace / query.Keyspace)
    shards,      \* the call's current shard list
    sqls,        \* ExecuteEntityIds: per-shard SQL
    bindVars,    \* ExecuteEntityIds: per-shard bind variables
    resharding,  \* the loop's resharding flag
    err,         \* error of the last ScatterConn dispatch
    qr,          \* result of the last ScatterConn dispatch
    ret,         \* what the call returned: [result, err]
    topoAlias,   \* topology: keyspace -> served-from keyspace
    topoShards,  \* topology: keyspace -> resolved shard list
    changes,     \* number of topology changes so far
    hist,        \* observations of the call (history, read by the properties only)
    fa, fb, fout,            \* StrsEquals harness: inputs and result
    q, c1, c2, out1, out2,   \* insertSqlClause harness: inputs and results
    session,     \* the caller-owned Session: [InTransaction, ShardSessions]
    bArgs, bOut, \* buildEntityIds harness: arguments and result
    subs,        \* ScatterConn fan-out: the latest SafeSession operation of a sub-call
    cm,          \* ScatterConn.Commit / Rollback in progress
    nextTx,      \* the next transaction id a tablet hands out
    repl,        \* topology: cell -> ShardReplication object of the shard
    rcall,       \* the latest replication-graph call: arguments, reads, result
    runPc,       \* servenv.Run: position of the main goroutine
    termPc,      \* servenv.Run: the goroutine firing the term hooks
    ListeningURL,   \* servenv.ListeningURL
    onCloseHooks,   \* servenv.onCloseHooks: the registered hooks
    events       \* servenv: lifecycle events so far (history)

vars == <<op, pc, keyspace, shards, sqls, bindVars, resharding, err, qr, ret,
          topoAlias, topoShards, changes, hist, fa, fb, fout, q, c1, c2, out1, out2,
          session, bArgs, bOut, subs, cm, nextTx, repl, rcall,
          runPc, termPc, ListeningURL, onCloseHooks, events>>

resolverVars == <<op, pc, keyspace, shards, sqls, bindVars, resharding, err, qr, ret,
                  topoAlias, topoShards, changes, hist>>
strsVars == <<fa, fb, fout>>
sqlVars == <<q, c1, c2, out1, out2>>
buildVars == <<bArgs, bOut>>
txVars == <<subs, cm, nextTx>>
replVars == <<repl, rcall>>
runVars == <<runPc, termPc, ListeningURL, onCloseHooks, events>>
otherVars == <<buildVars, txVars, replVars, runVars>>

(***************************************************************************)
(* Bounds                                                                  *)
(***************************************************************************)
MaxTopoChanges == 1   \* topology changes during one call
MaxCount == 3         \* the dispatch / resolution counters saturate here
MaxStrs == 3          \* StrsEquals harness: longest input list
MaxTokens == 3        \* insertSqlClause harness: most tokens in a query
MaxKids == 2          \* buildEntityIds harness: most keyspace ids on one shard
MaxSubs == 2          \* parallel sub-calls of one ScatterConn fan-out
MaxTx == 2            \* transaction ids the tablets hand out
MaxLinks == 2         \* replication graph: most links of a cell at the start
LameduckTicks == 2    \* servenv: the lameduck period, in clock ticks

Min(a, b) == IF a < b THEN a ELSE b
Range(s) == {s[i] : i \in 1..Len(s)}
Inc(n) == Min(n + 1, MaxCount)

(***************************************************************************)
(* Go strings as byte sequences                                            *)
(***************************************************************************)
\* s < t in Go: byte-wise lexicographic order
StrLess(s, t) ==
    \E i \in 1..(Min(Len(s), Len(t)) + 1) :
        /\ \A j \in 1..(i - 1) : s[j] = t[j]
        /\ \/ i > Len(s) /\ i <= Len(t)
           \/ i <= Len(s) /\ i <= Len(t) /\ s[i] < t[i]

\* strings.ToLower on ASCII
LowerByte(b) == IF b >= 65 /\ b <= 90 THEN b + 32 ELSE b
ToLower(s) == [i \in 1..Len(s) |-> LowerByte(s[i])]

\* substr occurs in s at 0-based index i
OccursAt(s, substr, i) ==
    /\ i >= 0
    /\ i + Len(substr) <= Len(s)
    /\ \A j \in 1..Len(substr) : s[i + j] = substr[j]

\* strings.Index: 0-based index of the first occurrence, -1 if none
RECURSIVE IndexFrom(_, _, _)
IndexFrom(s, substr, i) ==
    IF i + Len(substr) > Len(s) THEN -1
    ELSE IF OccursAt(s, substr, i) THEN i
    ELSE IndexFrom(s, substr, i + 1)

Index(s, substr) == IndexFrom(s, substr, 0)

\* strings.Contains
Contains(s, substr) == Index(s, substr) >= 0

\* fmt.Sprintf("%v", i) for an int i >= 0
RECURSIVE Itoa(_)
Itoa(i) == IF i < 10 THEN <<48 + i>> ELSE Itoa(i \div 10) \o <<48 + (i % 10)>>

\* insert v into the sorted list s (stable position after equal elements)
RECURSIVE InsertSorted(_, _)
InsertSorted(s, v) ==
    IF s = <<>> THEN <<v>>
    ELSE IF StrLess(v, Head(s)) THEN <<v>> \o s
    ELSE <<Head(s)>> \o InsertSorted(Tail(s), v)

\* sort.Strings: the list in increasing order
RECURSIVE SortStrings(_)
SortStrings(s) ==
    IF s = <<>> THEN <<>>
    ELSE InsertSorted(SortStrings(SubSeq(s, 1, Len(s) - 1)), s[Len(s)])

(***************************************************************************)
(* String literals of the source                                           *)
(***************************************************************************)
KwGroupBy == <<32, 103, 114, 111, 117, 112, 32, 98, 121>>             \* " group by"
KwOrderBy == <<32, 111, 114, 100, 101, 114, 32, 98, 121>>             \* " order by"
KwLimit == <<32, 108, 105, 109, 105, 116>>                            \* " limit"
KwForUpdate == <<32, 102, 111, 114, 32, 117, 112, 100, 97, 116, 101>> \* " for update"
KwWhere == <<119, 104, 101, 114, 101>>                                \* "where"
StrAnd == <<32, 97, 110, 100, 32>>                                    \* " and "
StrWhere == <<32, 119, 104, 101, 114, 101, 32>>                       \* " where "
StrIn == <<32, 105, 110, 32, 40>>                                     \* " in ("
StrComma == <<44, 32>>                                                \* ", "
StrColon == <<58>>                                                    \* ":"
StrClose == <<41>>                                                    \* ")"

\* Faulty variant of StrsEquals: compares without sorting.
StrsEqualsUnsorted(a, b) ==
    [eq |-> Len(a) = Len(b) /\ \A i \in 1..Len(a) : a[i] = b[i], a |-> a, b |-> b]

(***************************************************************************)
(* StrsEquals: compares contents of two string slices.  sort.Strings sorts *)
(* the caller's slices in place, so the operator also returns them.        *)
(***************************************************************************)
StrsEquals(a, b) ==
    IF Len(a) # Len(b)
    THEN [eq |-> FALSE, a |-> a, b |-> b]
    ELSE LET sa == SortStrings(a)
             sb == SortStrings(b)
         IN  [eq |-> \A i \in 1..Len(sa) : sa[i] = sb[i], a |-> sa, b |-> sb]

(***************************************************************************)
(* insertSqlClause                                                         *)
(***************************************************************************)
\* one "if idx := strings.Index(sql, kw); idx > 0 && idx < idxExtra" step
ExtraIdx(sql, kw, idxExtra) ==
    LET idx == Index(sql, kw)
    IN  IF idx > 0 /\ idx < idxExtra THEN idx ELSE idxExtra

insertSqlClause(querySql, clause) ==
    LET sql == ToLower(querySql)
        idxExtra ==
            ExtraIdx(sql, KwForUpdate,
                ExtraIdx(sql, KwLimit,
                    ExtraIdx(sql, KwOrderBy,
                        ExtraIdx(sql, KwGroupBy, Len(sql)))))
    IN  SubSeq(querySql, 1, idxExtra)
        \o (IF Contains(sql, KwWhere) THEN StrAnd ELSE StrWhere)
        \o clause
        \o (IF idxExtra < Len(sql)
            THEN SubSeq(querySql, idxExtra + 1, Len(querySql))
            ELSE <<>>)

(***************************************************************************)
(* buildEntityIds.  `order` is the order in which `range shardMap` visits  *)
(* the shards (Go leaves it unspecified): a sequence holding every key of  *)
(* shardMap once.                                                          *)
(***************************************************************************)
\* fmt.Sprintf("%v%v", entityColName, i)
BvName(entityColName, i) == entityColName \o Itoa(i)

\* "entityColName in (:n0, :n1, ...)" written to the buffer b
RECURSIVE InList(_, _)
InList(entityColName, n) ==
    IF n = 0 THEN <<>>
    ELSE InList(entityColName, n - 1)
         \o (IF n - 1 > 0 THEN StrComma ELSE <<>>)
         \o StrColon \o BvName(entityColName, n - 1)

EntityClause(entityColName, kids) ==
    entityColName \o StrIn \o InList(entityColName, Len(kids)) \o StrClose

\* bindVar: the copy of qBindVars with the shard's keyspace ids added
EntityBindVar(entityColName, kids, qBindVars) ==
    LET idx(n) == CHOOSE i \in 0..(Len(kids) - 1) :
                      /\ BvName(entityColName, i) = n
                      /\ \A j \in (i + 1)..(Len(kids) - 1) : BvName(entityColName, j) # n
        names == {BvName(entityColName, i) : i \in 0..(Len(kids) - 1)}
    IN  [n \in DOMAIN qBindVars \cup names |->
            IF n \in names THEN kids[idx(n) + 1] ELSE qBindVars[n]]

buildEntityIds(shardMap, qSql, entityColName, qBindVars, order) ==
    [shards   |-> order,
     sqls     |-> [s \in DOMAIN shardMap |->
                      insertSqlClause(qSql, EntityClause(entityColName, shardMap[s]))],
     bindVars |-> [s \in DOMAIN shardMap |->
                      EntityBindVar(entityColName, shardMap[s], qBindVars)]]

(***************************************************************************)
(* Values                                                                  *)
(***************************************************************************)
NoErr == [kind |-> "nil"]                     \* a nil error
NilResult == [kind |-> "nil"]                 \* a nil *QueryResult / *QueryResultList
None == [kind |-> "none"]                     \* nothing observed / returned yet

ERR_RETRY == "ERR_RETRY"                      \* tabletconn.ERR_RETRY
ERR_FATAL == "ERR_FATAL"                      \* a ShardConnError code other than RETRY
ShardConnError(code) == [kind |-> "ShardConnError", Code |-> code]
PlainError(msg) == [kind |-> "error", msg |-> msg]

\* fmt.Errorf("Resolved to more than one shard")
ErrMoreThanOneShard == PlainError("Resolved to more than one shard")

(***************************************************************************)
(* The topology service and ScatterConn, as the Resolver sees them         *)
(***************************************************************************)
Keyspaces == {"user", "user_v2"}

Shard0 == <<48>>            \* "0"
ShardLo == <<45, 56, 48>>   \* "-80"
ShardHi == <<56, 48, 45>>   \* "80-"

\* the deduplicated shard lists a resolution may return
ShardLists == {<<>>, <<Shard0>>, <<ShardLo, ShardHi>>, <<ShardHi, ShardLo>>}

\* errors of a shard resolution
TopoErrs == {PlainError("topology unreachable"), PlainError("key out of range")}

\* errors of an alias lookup
AliasErrs == {PlainError("keyspace lookup failed")}

\* errors of a ScatterConn dispatch (NoErr: success)
DispatchErrs == {NoErr, ShardConnError(ERR_RETRY), ShardConnError(ERR_FATAL),
                 PlainError("deadline exceeded")}

\* the caller's Session: outside a transaction, or inside one that has
\* already enrolled a shard
TabletTypes == {"master", "replica"}
ShardSession(ks, sh, tt, id) ==
    [Keyspace |-> ks, Shard |-> sh, TabletType |-> tt, TransactionId |-> id]
SessionOutside == [InTransaction |-> FALSE, ShardSessions |-> <<>>]
SessionInside ==
    [InTransaction |-> TRUE,
     ShardSessions |-> <<ShardSession("user", Shard0, "master", 1)>>]

\* NewSafeSession(session): the SafeSession wraps the caller's Session
NewSafeSession(sessn) == [Session |-> sessn]

\* the caller's query
QueryKeyspace == "user"
QuerySql == <<97, 32, 108, 105, 109, 105, 116, 32, 49>>     \* "a limit 1"
EntityColumnName == <<105, 100>>                            \* "id"
QueryBindVars == [n \in {<<118>>} |-> "v"]                  \* {"v": "v"}
EntityKeyspaceIds == <<"k1", "k2">>                         \* the keyspace ids of the entity map

\* mapKeyspaceIdsToShards / mapKeyRangesToShards: (shards, err)
MapToShards(ks) ==
    {[shards |-> topoShards[ks], err |-> NoErr]}
        \cup {[shards |-> <<>>, err |-> e] : e \in TopoErrs}

\* the keyspace ids grouped by target shard: the i-th id lives on the
\* ((i-1) mod n + 1)-th of the n shards
ShardMapOf(list) ==
    [s \in Range(list) |->
        LET mine(i) == list[((i - 1) % Len(list)) + 1] = s
            F[i \in 0..Len(EntityKeyspaceIds)] ==
                IF i = 0 THEN <<>>
                ELSE IF mine(i) THEN Append(F[i - 1], EntityKeyspaceIds[i]) ELSE F[i - 1]
        IN  F[Len(EntityKeyspaceIds)]]

\* mapEntityIdsToShards: (shardMap, err)
MapEntityIdsToShards(ks) ==
    {[shardMap |-> ShardMapOf(topoShards[ks]), err |-> NoErr]}
        \cup {[shardMap |-> <<>>, err |-> e] : e \in TopoErrs}

\* getKeyspaceAlias: (newKeyspace, err)
GetKeyspaceAlias(ks) ==
    {[name |-> topoAlias[ks], err |-> NoErr]}
        \cup {[name |-> "", err |-> e] : e \in AliasErrs}

\* the orders in which a map with these keys may be ranged over
Orders(keys) ==
    {o \in [1..Cardinality(keys) -> keys] : \A s \in keys : \E i \in DOMAIN o : o[i] = s}

\* what ScatterConn hands back for the n-th dispatch: on success the
\* aggregated result; on an error that error, together with whatever result
\* it had gathered (the Resolver never reads the result of a failed dispatch,
\* so the non-nil case stands for both)
ScatterOutcomes(n, ks, shs) ==
    {[qr |-> [kind |-> "result", attempt |-> n, keyspace |-> ks, shards |-> shs],
      err |-> NoErr]}
        \cup {[qr |-> [kind |-> "partial", attempt |-> n], err |-> e] :
                e \in DispatchErrs \ {NoErr}}

(***************************************************************************)
(* Observations of the call (history only; no action reads them)           *)
(***************************************************************************)
InitHist ==
    [nDispatch      |-> 0,      \* dispatches to ScatterConn so far
     nResolve       |-> 0,      \* shard resolutions so far
     nAlias         |-> 0,      \* alias lookups so far
     firstResolve   |-> None,   \* outcome of the initial shard resolution
     resolved       |-> None,   \* outcome of the latest shard resolution
     lastDisp       |-> None,   \* the latest dispatch: what was passed, what came back
     obsAlias       |-> None,   \* alias lookup made since the latest dispatch
     obsShards      |-> None,   \* shard resolution made since the latest dispatch
     switch         |-> None,   \* the latest keyspace switch [old, new]
     usedSince      |-> {},     \* keyspaces passed to resolutions/dispatches since then
     firstSwitch    |-> None,   \* the first keyspace switch [old, new]
     usedSinceFirst |-> {},     \* keyspaces passed to resolutions/dispatches since then
     sessions       |-> {}]     \* the SafeSessions passed to the dispatches

\* a keyspace name was passed to a shard resolution or to a dispatch
Used(h, ks) ==
    [h EXCEPT !.usedSince = IF h.switch = None THEN @ ELSE @ \cup {ks},
              !.usedSinceFirst = IF h.firstSwitch = None THEN @ ELSE @ \cup {ks}]

\* a shard resolution for ks returned (shs, e); shardMap is the map behind it
SawResolve(h, ks, shs, shardMap, e) ==
    LET o == [kind |-> "resolve", asked |-> ks, shards |-> shs, shardMap |-> shardMap,
              err |-> e]
    IN  [Used(h, ks) EXCEPT !.nResolve = Inc(@),
                            !.firstResolve = IF h.nResolve = 0 THEN o ELSE @,
                            !.resolved = o,
                            !.obsShards = IF h.nDispatch = 0 THEN @ ELSE o]

\* an alias lookup for ks returned a; a successful lookup that names another
\* keyspace is a keyspace switch
SawAlias(h, ks, a) ==
    LET differs == a.err = NoErr /\ a.name # ks
        sw == [kind |-> "switch", old |-> ks, new |-> a.name]
    IN  [h EXCEPT !.nAlias = Inc(@),
                  !.obsAlias = [kind |-> "alias", asked |-> ks, name |-> a.name, err |-> a.err],
                  !.switch = IF differs THEN sw ELSE @,
                  !.usedSince = IF differs THEN {} ELSE @,
                  !.firstSwitch = IF differs /\ h.firstSwitch = None THEN sw ELSE @]

\* a dispatch was made with these arguments and returned o
SawDispatch(h, ks, shs, sq, bv, safe, o) ==
    [Used(h, ks) EXCEPT !.nDispatch = Inc(@),
                        !.sessions = @ \cup {safe},
                        !.lastDisp = [kind |-> "dispatch", keyspace |-> ks, shards |-> shs,
                                      sqls |-> sq, bindVars |-> bv, qr |-> o.qr,
                                      err |-> o.err, resolved |-> h.resolved],
                        !.obsAlias = None,
                        !.obsShards = None]

(***************************************************************************)
(* The retry loop of Execute / ExecuteEntityIds / ExecuteBatch             *)
(***************************************************************************)
\* Faulty variant of IsRetry: any ShardConnError counts, whatever its code.
IsRetryAnyCode(e) == e.kind = "ShardConnError"

\* connError, ok := err.(*ShardConnError); ok && connError.Code == tabletconn.ERR_RETRY
IsRetry(e) == e.kind = "ShardConnError" /\ e.Code = ERR_RETRY

\* if err != nil { return nil, err }; return qr, err
Return(r, e) ==
    IF e # NoErr THEN [result |-> NilResult, err |-> e] ELSE [result |-> r, err |-> e]

\* Faulty variant of ResolveFailed: returns the dispatch error in scope
\* instead of the resolution error.
ResolveFailedOuterErr(e) == [result |-> NilResult, err |-> err]

\* shards, err := mapToShards(keyspace); if err != nil { return nil, err }
ResolveFailed(e) == [result |-> NilResult, err |-> e]

\* Faulty variant of AliasStep: flags resharding but keeps the old keyspace.
AliasStepKeepName(ks, a) ==
    IF a.err = NoErr /\ a.name # ks
    THEN [keyspace |-> ks, resharding |-> TRUE]
    ELSE [keyspace |-> ks, resharding |-> FALSE]

\* Faulty variant of AliasStep: flags resharding on every successful lookup.
AliasStepAlways(ks, a) ==
    IF a.err = NoErr
    THEN [keyspace |-> a.name, resharding |-> TRUE]
    ELSE [keyspace |-> ks, resharding |-> FALSE]

\* Faulty variant of AliasStep: a failed lookup counts as resharding.
AliasStepErrResharding(ks, a) ==
    IF a.err # NoErr \/ a.name # ks
    THEN [keyspace |-> IF a.err = NoErr THEN a.name ELSE ks, resharding |-> TRUE]
    ELSE [keyspace |-> ks, resharding |-> FALSE]

\* check keyspace change for vertical resharding: the keyspace and the
\* resharding flag after the lookup returned a
AliasStep(ks, a) ==
    IF a.err = NoErr /\ a.name # ks
    THEN [keyspace |-> a.name, resharding |-> TRUE]
    ELSE [keyspace |-> ks, resharding |-> FALSE]

\* Faulty variant of ShardsStep: flags resharding but keeps the old shards.
ShardsStepKeepShards(newShards, curShards, flag) ==
    LET c == StrsEquals(newShards, curShards)
    IN  IF ~c.eq
        THEN [changed |-> FALSE, shards |-> c.b, resharding |-> TRUE]
        ELSE [changed |-> FALSE, shards |-> c.b, resharding |-> flag]

\* check shards change for horizontal resharding: the shard list and the
\* resharding flag after the comparison (StrsEquals sorts both lists in place)
ShardsStep(newShards, curShards, flag) ==
    LET c == StrsEquals(newShards, curShards)
    IN  IF ~c.eq
        THEN [changed |-> TRUE, shards |-> c.a, resharding |-> TRUE]
        ELSE [changed |-> FALSE, shards |-> c.b, resharding |-> flag]

\* Faulty variant of Continue: no retry inside a transaction.
ContinueOutsideTransaction(flag) == flag /\ ~session.InTransaction

\* retry if resharding happened: if resharding { continue }
Continue(flag) == flag

\* Faulty variant of TakeBuilt: the SQL and bind variables are never replaced.
TakeBuiltNever(changed, new, cur) == cur

\* ExecuteEntityIds: sqls = newSqls, bindVars = newBindVars when the shards
\* changed
TakeBuilt(changed, new, cur) == IF changed THEN new ELSE cur

LoopOps == {"Execute", "ExecuteBatch", "ExecuteEntityIds"}
Ops == LoopOps \cup {"StreamExecute"}

\* buildEntityIds(shardMap, query.Sql, query.EntityColumnName,
\* query.BindVariables) for every shard map the topology can give and every
\* order of ranging over it (a constant table, evaluated once)
BuiltEntityIds ==
    [m \in {ShardMapOf(l) : l \in ShardLists} |->
        [o \in Orders(DOMAIN m) |->
            buildEntityIds(m, QuerySql, EntityColumnName, QueryBindVars, o)]]

\* Execute, ExecuteBatch: shards, err := mapToShards(keyspace)
Resolve ==
    /\ pc = "start"
    /\ op \in {"Execute", "ExecuteBatch"}
    /\ \E r \in MapToShards(keyspace) :
        /\ hist' = SawResolve(hist, keyspace, r.shards, <<>>, r.err)
        /\ IF r.err # NoErr
           THEN /\ pc' = "done"
                /\ ret' = ResolveFailed(r.err)
                /\ UNCHANGED shards
           ELSE /\ pc' = "dispatch"
                /\ shards' = r.shards
                /\ UNCHANGED ret
    /\ UNCHANGED <<op, keyspace, sqls, bindVars, resharding, err, qr,
                   topoAlias, topoShards, changes, strsVars, sqlVars, session, otherVars>>

\* ExecuteEntityIds: mapEntityIdsToShards, then buildEntityIds
ResolveEntityIds ==
    /\ pc = "start"
    /\ op = "ExecuteEntityIds"
    /\ \E r \in MapEntityIdsToShards(keyspace) :
        IF r.err # NoErr
        THEN /\ pc' = "done"
             /\ ret' = ResolveFailed(r.err)
             /\ hist' = SawResolve(hist, keyspace, <<>>, r.shardMap, r.err)
             /\ UNCHANGED <<shards, sqls, bindVars>>
        ELSE \E order \in Orders(DOMAIN r.shardMap) :
             \E b \in {BuiltEntityIds[r.shardMap][order]} :
                    /\ pc' = "dispatch"
                    /\ shards' = b.shards
                    /\ sqls' = b.sqls
                    /\ bindVars' = b.bindVars
                    /\ hist' = SawResolve(hist, keyspace, b.shards, r.shardMap, r.err)
                    /\ UNCHANGED ret
    /\ UNCHANGED <<op, keyspace, resharding, err, qr,
                   topoAlias, topoShards, changes, strsVars, sqlVars, session, otherVars>>

\* qr, err := res.scatterConn.Execute / ExecuteEntityIds / ExecuteBatch(...),
\* and the return when the error is not a RETRY
Dispatch ==
    /\ pc = "dispatch"
    /\ op \in LoopOps
    /\ \E o \in ScatterOutcomes(Inc(hist.nDispatch), keyspace, shards) :
        /\ qr' = o.qr
        /\ err' = o.err
        /\ hist' = SawDispatch(hist, keyspace, shards, sqls, bindVars,
                               NewSafeSession(session), o)
        /\ IF IsRetry(o.err)
           THEN pc' = "alias" /\ UNCHANGED ret
           ELSE pc' = "done" /\ ret' = Return(o.qr, o.err)
    /\ UNCHANGED <<op, keyspace, shards, sqls, bindVars, resharding,
                   topoAlias, topoShards, changes, strsVars, sqlVars, session, otherVars>>

\* newKeyspace, err := getKeyspaceAlias(...): check keyspace change
GetAlias ==
    /\ pc = "alias"
    /\ \E a \in GetKeyspaceAlias(keyspace) :
        LET n == AliasStep(keyspace, a)
        IN  /\ keyspace' = n.keyspace
            /\ resharding' = n.resharding
            /\ hist' = SawAlias(hist, keyspace, a)
    /\ pc' = "reresolve"
    /\ UNCHANGED <<op, shards, sqls, bindVars, err, qr, ret,
                   topoAlias, topoShards, changes, strsVars, sqlVars, session, otherVars>>

\* Execute, ExecuteBatch: newShards, err := mapToShards(keyspace), the
\* comparison, and the continue or the return that follows
ReResolve ==
    /\ pc = "reresolve"
    /\ op \in {"Execute", "ExecuteBatch"}
    /\ \E r \in MapToShards(keyspace) :
        /\ hist' = SawResolve(hist, keyspace, r.shards, <<>>, r.err)
        /\ IF r.err # NoErr
           THEN /\ pc' = "done"
                /\ ret' = ResolveFailed(r.err)
                /\ UNCHANGED <<shards, resharding>>
           ELSE \E n \in {ShardsStep(r.shards, shards, resharding)} :
                    /\ shards' = n.shards
                    /\ resharding' = n.resharding
                    /\ IF Continue(n.resharding)
                       THEN pc' = "dispatch" /\ UNCHANGED ret
                       ELSE pc' = "done" /\ ret' = Return(qr, err)
    /\ UNCHANGED <<op, keyspace, sqls, bindVars, err, qr,
                   topoAlias, topoShards, changes, strsVars, sqlVars, session, otherVars>>

\* ExecuteEntityIds: newShardMap, buildEntityIds, the comparison, and the
\* continue or the return that follows
ReResolveEntityIds ==
    /\ pc = "reresolve"
    /\ op = "ExecuteEntityIds"
    /\ \E r \in MapEntityIdsToShards(keyspace) :
        IF r.err # NoErr
        THEN /\ pc' = "done"
             /\ ret' = ResolveFailed(r.err)
             /\ hist' = SawResolve(hist, keyspace, <<>>, r.shardMap, r.err)
             /\ UNCHANGED <<shards, sqls, bindVars, resharding>>
        ELSE \E order \in Orders(DOMAIN r.shardMap) :
             \E b \in {BuiltEntityIds[r.shardMap][order]} :
             \E n \in {ShardsStep(b.shards, shards, resharding)} :
                    /\ shards' = n.shards
                    /\ sqls' = TakeBuilt(n.changed, b.sqls, sqls)
                    /\ bindVars' = TakeBuilt(n.changed, b.bindVars, bindVars)
                    /\ resharding' = n.resharding
                    /\ hist' = SawResolve(hist, keyspace, b.shards, r.shardMap, r.err)
                    /\ IF Continue(n.resharding)
                       THEN pc' = "dispatch" /\ UNCHANGED ret
                       ELSE pc' = "done" /\ ret' = Return(qr, err)
    /\ UNCHANGED <<op, keyspace, err, qr,
                   topoAlias, topoShards, changes, strsVars, sqlVars, session, otherVars>>

(***************************************************************************)
(* StreamExecute                                                           *)
(***************************************************************************)
\* Faulty variant of NotOneShard: refuses only two shards or more.
MoreThanOneShard(shs) == Len(shs) > 1

\* len(shards) != 1
NotOneShard(shs) == Len(shs) # 1

\* shards, err := mapToShards(keyspace) and the single-shard check
StreamResolve ==
    /\ pc = "start"
    /\ op = "StreamExecute"
    /\ \E r \in MapToShards(keyspace) :
        /\ hist' = SawResolve(hist, keyspace, r.shards, <<>>, r.err)
        /\ IF r.err # NoErr
           THEN /\ pc' = "done"
                /\ ret' = ResolveFailed(r.err)
                /\ UNCHANGED shards
           ELSE IF NotOneShard(r.shards)
           THEN /\ pc' = "done"
                /\ ret' = [result |-> NilResult, err |-> ErrMoreThanOneShard]
                /\ shards' = r.shards
           ELSE /\ pc' = "stream"
                /\ shards' = r.shards
                /\ UNCHANGED ret
    /\ UNCHANGED <<op, keyspace, sqls, bindVars, resharding, err, qr,
                   topoAlias, topoShards, changes, strsVars, sqlVars, session, otherVars>>

\* err = res.scatterConn.StreamExecute(...); return err
StreamDispatch ==
    /\ pc = "stream"
    /\ op = "StreamExecute"
    /\ \E e \in DispatchErrs :
        /\ err' = e
        /\ ret' = [result |-> NilResult, err |-> e]
        /\ hist' = SawDispatch(hist, keyspace, shards, sqls, bindVars,
                               NewSafeSession(session), [qr |-> NilResult, err |-> e])
    /\ pc' = "done"
    /\ UNCHANGED <<op, keyspace, shards, sqls, bindVars, resharding, qr,
                   topoAlias, topoShards, changes, strsVars, sqlVars, session, otherVars>>

(***************************************************************************)
(* The topology changes under the call (resharding).  The call sees the    *)
(* topology only through its reads, so a change is taken right before the  *)
(* read that observes it: the alias of the current keyspace before the     *)
(* alias lookup, its shard list before the shard resolution.  A change     *)
(* before the first read is a different initial topology.                  *)
(***************************************************************************)
TopoChange ==
    /\ changes < MaxTopoChanges
    /\ changes' = changes + 1
    /\ \/ /\ pc = "alias"
          /\ \E k2 \in Keyspaces \ {topoAlias[keyspace]} :
                topoAlias' = [topoAlias EXCEPT ![keyspace] = k2]
          /\ UNCHANGED topoShards
       \/ /\ pc = "reresolve"
          /\ \E l \in ShardLists \ {topoShards[keyspace]} :
                topoShards' = [topoShards EXCEPT ![keyspace] = l]
          /\ UNCHANGED topoAlias
    /\ UNCHANGED <<op, pc, keyspace, shards, sqls, bindVars, resharding, err, qr, ret,
                   hist, strsVars, sqlVars, session, otherVars>>

Idle == <<>>   \* value of the variables a specification does not use

BuildIdle == bArgs = Idle /\ bOut = Idle
TxIdle == subs = Idle /\ cm = Idle /\ nextTx = 0
ReplIdle == repl = Idle /\ rcall = Idle
RunIdle ==
    /\ runPc = "idle" /\ termPc = "idle" /\ ListeningURL = Idle
    /\ onCloseHooks = {} /\ events = <<>>

\* a call of a Resolver operation with the caller's Session sessn
InitCall(sessn) ==
    /\ op \in Ops
    /\ pc = "start"
    /\ keyspace = QueryKeyspace
    /\ shards = <<>>
    /\ sqls = <<>>
    /\ bindVars = <<>>
    /\ resharding = FALSE
    /\ err = NoErr
    /\ qr = NilResult
    /\ ret = None
    /\ topoAlias \in [Keyspaces -> Keyspaces]
    /\ topoShards \in [Keyspaces -> ShardLists]
    /\ changes = 0
    /\ hist = InitHist
    /\ fa = Idle /\ fb = Idle /\ fout = Idle
    /\ q = Idle /\ c1 = Idle /\ c2 = Idle /\ out1 = Idle /\ out2 = Idle
    /\ session = sessn
    /\ BuildIdle /\ TxIdle /\ ReplIdle /\ RunIdle

\* the call is made outside a transaction
Init == InitCall(SessionOutside)

\* the call is made inside a transaction
InitTx == InitCall(SessionInside)

Next ==
    \/ Resolve
    \/ ResolveEntityIds
    \/ Dispatch
    \/ GetAlias
    \/ ReResolve
    \/ ReResolveEntityIds
    \/ StreamResolve
    \/ StreamDispatch
    \/ TopoChange

Spec == Init /\ [][Next]_vars

SpecTx == InitTx /\ [][Next]_vars

\* the steps of the call itself; the goroutine running the call takes them
\* whenever it can
CallStep ==
    \/ Resolve
    \/ ResolveEntityIds
    \/ Dispatch
    \/ GetAlias
    \/ ReResolve
    \/ ReResolveEntityIds
    \/ StreamResolve
    \/ StreamDispatch

FairSpec == Init /\ [][Next]_vars /\ WF_vars(CallStep)

(***************************************************************************)
(* Properties of the retry loop                                            *)
(***************************************************************************)
Done == pc = "done"
NoMoreDispatch == ~ENABLED (Dispatch \/ StreamDispatch)

\* a ShardConnError with code RETRY
RetryError == ShardConnError(ERR_RETRY)

\* the latest dispatch of a looping operation returned RETRY
RetryPending == op \in LoopOps /\ hist.lastDisp # None /\ hist.lastDisp.err = RetryError

\* the alias lookup made since the latest dispatch named another keyspace
AliasDiffers ==
    /\ hist.obsAlias # None
    /\ hist.obsAlias.err = NoErr
    /\ hist.obsAlias.name # hist.obsAlias.asked

\* the shard resolution made since the latest dispatch succeeded
Reresolved == hist.obsShards # None /\ hist.obsShards.err = NoErr

\* ... and its shard set is the one just dispatched
SameShardSet == Range(hist.obsShards.shards) = Range(hist.lastDisp.shards)

\* a is b in some order
IsPermutation(a, b) ==
    /\ Len(a) = Len(b)
    /\ \A v \in Range(a) \cup Range(b) :
        Cardinality({i \in 1..Len(a) : a[i] = v}) = Cardinality({i \in 1..Len(b) : b[i] = v})

\* C1: a RETRY after which the re-read topology shows neither another
\* keyspace alias nor another shard set is returned to the caller (with a nil
\* result) and no further dispatch is made.
C1_RetryWithoutChangeIsReturned ==
    (RetryPending /\ hist.obsAlias # None /\ ~AliasDiffers /\ Reresolved /\ SameShardSet)
        => /\ Done
           /\ ret = [result |-> NilResult, err |-> hist.lastDisp.err]
           /\ NoMoreDispatch

\* the re-read returned the dispatched shards in another order
C1_Witness ==
    /\ RetryPending /\ hist.obsAlias # None /\ ~AliasDiffers /\ Reresolved /\ SameShardSet
    /\ hist.obsShards.shards # hist.lastDisp.shards
    /\ Done

\* C2: a RETRY after which the re-resolution yields another shard set leads
\* to a dispatch with the newly resolved shards (every dispatch is made with
\* the latest resolved shards, under the keyspace they were resolved for), and
\* when the second dispatch succeeds its result is returned after exactly two
\* dispatches.
C2_RetryWithNewShards ==
    /\ (RetryPending /\ Reresolved /\ ~SameShardSet)
        => /\ pc = "dispatch"
           /\ IsPermutation(shards, hist.obsShards.shards)
           /\ keyspace = hist.obsShards.asked
           /\ ENABLED Dispatch
    /\ (op \in LoopOps /\ hist.lastDisp # None)
        => /\ hist.lastDisp.resolved.err = NoErr
           /\ IsPermutation(hist.lastDisp.shards, hist.lastDisp.resolved.shards)
           /\ hist.lastDisp.keyspace = hist.lastDisp.resolved.asked
    /\ (op \in LoopOps /\ hist.lastDisp # None /\ hist.lastDisp.err = NoErr
            /\ hist.lastDisp.qr.attempt = 2)
        => /\ Done
           /\ ret = [result |-> hist.lastDisp.qr, err |-> NoErr]
           /\ hist.nDispatch = 2
           /\ NoMoreDispatch

\* the second dispatch went to another shard set than the first resolution
\* gave, and succeeded
C2_Witness ==
    /\ op \in LoopOps /\ Done /\ ret.err = NoErr
    /\ hist.nDispatch = 2
    /\ Range(hist.lastDisp.shards) # Range(hist.firstResolve.shards)
    /\ ret.result.shards = hist.lastDisp.shards

\* after a RETRY, an alias lookup that names another keyspace is followed by
\* a re-dispatch under that name, whatever the shard set
RedispatchUnderNewName ==
    (RetryPending /\ AliasDiffers /\ Reresolved)
        => /\ pc = "dispatch"
           /\ keyspace = hist.obsAlias.name
           /\ hist.obsShards.asked = hist.obsAlias.name
           /\ ENABLED Dispatch

\* C3 as stated: once an alias lookup has named another keyspace, the call
\* re-dispatches even with an unchanged shard set, and every later resolution
\* and dispatch of the call uses that new name.
C3_Original ==
    /\ RedispatchUnderNewName
    /\ hist.firstSwitch # None => hist.usedSinceFirst \subseteq {hist.firstSwitch.new}

\* C3 (amended): ... every later resolution and dispatch uses the new name
\* until a later alias lookup of the same call names yet another keyspace
\* (which may be the old one again).
C3_NewKeyspaceUsedUntilNextSwitch ==
    /\ RedispatchUnderNewName
    /\ hist.switch # None => hist.usedSince \subseteq {hist.switch.new}

\* re-dispatch is pending under the new name with the shard set unchanged
C3_Witness ==
    /\ RetryPending /\ AliasDiffers /\ Reresolved /\ SameShardSet
    /\ pc = "dispatch"
    /\ hist.usedSince = {hist.switch.new}
    /\ hist.switch.old = QueryKeyspace

\* C4: success, or an error that is no ShardConnError with code RETRY, is
\* returned at once: no alias lookup, no shard re-resolution and no dispatch
\* follows it, and on an error the returned result is nil.
C4_NonRetryReturnsAtOnce ==
    (op \in LoopOps /\ hist.lastDisp # None /\ hist.lastDisp.err # RetryError)
        => /\ Done
           /\ hist.obsAlias = None
           /\ hist.obsShards = None
           /\ ret = IF hist.lastDisp.err = NoErr
                    THEN [result |-> hist.lastDisp.qr, err |-> NoErr]
                    ELSE [result |-> NilResult, err |-> hist.lastDisp.err]
           /\ NoMoreDispatch

\* a ShardConnError with another code came back with a partial result
C4_Witness ==
    /\ op \in LoopOps /\ Done
    /\ hist.lastDisp # None
    /\ hist.lastDisp.err = ShardConnError(ERR_FATAL)
    /\ hist.lastDisp.qr # NilResult
    /\ ret.result = NilResult

\* C5: StreamExecute dispatches at most once and only for exactly one
\* resolved shard; any other number of shards gives the error "Resolved to
\* more than one shard" without a dispatch; it resolves once, never looks up
\* the alias, and returns the error of the stream (a RETRY too) as it is.
C5_StreamExecuteNoRetry ==
    op = "StreamExecute"
        => /\ hist.nDispatch <= 1
           /\ hist.nResolve <= 1
           /\ hist.nAlias = 0
           /\ hist.lastDisp # None
                => /\ hist.firstResolve.err = NoErr
                   /\ Len(hist.firstResolve.shards) = 1
                   /\ hist.lastDisp.shards = hist.firstResolve.shards
                   /\ Done
                   /\ ret.err = hist.lastDisp.err
                   /\ NoMoreDispatch
           /\ (hist.firstResolve # None /\ hist.firstResolve.err = NoErr
                    /\ Len(hist.firstResolve.shards) # 1)
                => /\ Done
                   /\ ret.err = ErrMoreThanOneShard
                   /\ hist.nDispatch = 0
                   /\ NoMoreDispatch

\* a resolution to no shard at all is refused without a dispatch
C5_Witness ==
    /\ op = "StreamExecute" /\ Done
    /\ hist.firstResolve.err = NoErr
    /\ hist.firstResolve.shards = <<>>
    /\ ret.err = ErrMoreThanOneShard
    /\ hist.nDispatch = 0

\* C6: a failed initial shard resolution returns its error without any
\* dispatch; a failed shard re-resolution after a RETRY returns its error
\* with a nil result and no dispatch follows.
C6_ResolutionErrorSurfaced ==
    /\ (hist.firstResolve # None /\ hist.firstResolve.err # NoErr)
        => /\ Done
           /\ ret = [result |-> NilResult, err |-> hist.firstResolve.err]
           /\ hist.nDispatch = 0
           /\ NoMoreDispatch
    /\ (op \in LoopOps /\ hist.obsShards # None /\ hist.obsShards.err # NoErr)
        => /\ Done
           /\ ret = [result |-> NilResult, err |-> hist.obsShards.err]
           /\ hist.resolved = hist.obsShards
           /\ NoMoreDispatch

\* a re-resolution after a RETRY failed
C6_Witness ==
    /\ op \in LoopOps /\ Done
    /\ hist.nDispatch >= 1
    /\ hist.obsShards # None
    /\ hist.obsShards.err = PlainError("key out of range")
    /\ ret.err = PlainError("key out of range")

\* C7 as stated: the topology changes finitely often (at most MaxTopoChanges
\* times here), so the call eventually returns.
C7_Original == <>Done

\* following the aliases from any keyspace ends in a keyspace that is its own
\* alias
RECURSIVE AliasChainEnds(_, _)
AliasChainEnds(ks, fuel) ==
    \/ topoAlias[ks] = ks
    \/ fuel > 0 /\ AliasChainEnds(topoAlias[ks], fuel - 1)

NoAliasCycle == \A ks \in Keyspaces : AliasChainEnds(ks, Cardinality(Keyspaces))

\* C7 (amended): if the topology changes finitely often and is left without
\* a cycle of keyspace aliases, the call eventually returns, even when every
\* dispatch returns RETRY.
C7_ReturnsUnlessAliasCycle == (<>[]NoAliasCycle) => <>Done

\* the call returned a RETRY after retrying through a topology change
C7_Witness ==
    /\ op \in LoopOps /\ Done
    /\ ret.err = RetryError
    /\ hist.nDispatch >= 2
    /\ changes >= 1
    /\ NoAliasCycle

\* C16: the loop runs the same inside a transaction: after a RETRY and a
\* successful re-resolution the call dispatches again exactly when the alias
\* lookup named another keyspace or the shard set differs, the rule that
\* holds outside a transaction, and every dispatch of the call is handed
\* the caller's own Session.
C16_RetryIgnoresTransaction ==
    (op \in LoopOps /\ session.InTransaction) =>
        /\ (RetryPending /\ hist.obsAlias # None /\ Reresolved)
              => (pc = "dispatch" <=> (AliasDiffers \/ ~SameShardSet))
        /\ \A safe \in hist.sessions : safe.Session = session

\* inside a transaction a second dispatch was made after a RETRY
C16_Witness ==
    /\ op \in LoopOps
    /\ session.InTransaction
    /\ hist.nDispatch = 2
    /\ hist.lastDisp.err = NoErr
    /\ Done

\* the alias lookup made since the latest dispatch failed
AliasFailed == hist.obsAlias # None /\ hist.obsAlias.err # NoErr

\* C19: a failed alias lookup after a RETRY does not fail the call: the
\* keyspace is kept, the shards are re-resolved under it, the call
\* dispatches again only if the shard set differs, and otherwise returns
\* the RETRY error; the alias error itself is never returned.
C19_AliasErrorIgnored ==
    (op \in LoopOps /\ RetryPending /\ AliasFailed) =>
        /\ keyspace = hist.obsAlias.asked
        /\ ~resharding \/ (Reresolved /\ ~SameShardSet)
        /\ hist.obsShards = None => pc = "reresolve"
        /\ hist.obsShards # None => hist.obsShards.asked = hist.obsAlias.asked
        /\ (Reresolved /\ ~SameShardSet) => pc = "dispatch"
        /\ (Reresolved /\ SameShardSet)
              => (Done /\ ret = [result |-> NilResult, err |-> RetryError])
        /\ ret # None => ret.err \notin AliasErrs

\* after a failed alias lookup the shards differed and the call is about to
\* dispatch again under the keyspace it had
C19_Witness ==
    /\ op \in LoopOps /\ RetryPending /\ AliasFailed
    /\ Reresolved /\ ~SameShardSet
    /\ pc = "dispatch"
    /\ keyspace = QueryKeyspace

\* the buildEntityIds results of the call's query
EntityIdsResults ==
    UNION {{BuiltEntityIds[m][o] : o \in DOMAIN BuiltEntityIds[m]} :
                m \in DOMAIN BuiltEntityIds}

\* C20: every dispatch of ExecuteEntityIds passes a shard list, an SQL map
\* and a bind-variable map that come from one buildEntityIds result: both
\* maps are keyed by exactly the dispatched shards, and these are the shards
\* of the latest shard map, which was resolved for the dispatch's keyspace.
C20_EntityIdsDispatchConsistent ==
    (op = "ExecuteEntityIds" /\ hist.lastDisp # None) =>
        LET d == hist.lastDisp
        IN  /\ \E b \in EntityIdsResults :
                /\ d.sqls = b.sqls
                /\ d.bindVars = b.bindVars
                /\ IsPermutation(d.shards, b.shards)
            /\ DOMAIN d.sqls = Range(d.shards)
            /\ DOMAIN d.bindVars = Range(d.shards)
            /\ Len(d.shards) = Cardinality(Range(d.shards))
            /\ d.resolved.err = NoErr
            /\ d.resolved.asked = d.keyspace
            /\ Range(d.shards) = DOMAIN d.resolved.shardMap

\* a second dispatch of ExecuteEntityIds went to two shards after the first
\* had gone to one
C20_Witness ==
    /\ op = "ExecuteEntityIds"
    /\ hist.nDispatch = 2
    /\ Len(hist.lastDisp.shards) = 2
    /\ Len(hist.firstResolve.shards) = 1

(***************************************************************************)
(* StrsEquals on its own: every pair of string lists up to MaxStrs long    *)
(***************************************************************************)
StrPool == {Shard0, ShardLo, ShardHi}

\* the sequences over S of length at most n
SeqsUpTo(S, n) == UNION {[1..k -> S] : k \in 0..n}

ResolverIdle ==
    /\ op = "none" /\ pc = "idle" /\ keyspace = QueryKeyspace
    /\ shards = <<>> /\ sqls = <<>> /\ bindVars = <<>>
    /\ resharding = FALSE /\ err = NoErr /\ qr = NilResult /\ ret = None
    /\ topoAlias = Idle /\ topoShards = Idle /\ changes = 0 /\ hist = InitHist

InitStrs ==
    /\ ResolverIdle
    /\ fa \in SeqsUpTo(StrPool, MaxStrs)
    /\ fb \in SeqsUpTo(StrPool, MaxStrs)
    /\ fout = None
    /\ q = Idle /\ c1 = Idle /\ c2 = Idle /\ out1 = Idle /\ out2 = Idle
    /\ session = Idle
    /\ BuildIdle /\ TxIdle /\ ReplIdle /\ RunIdle

\* a call StrsEquals(fa, fb): fout holds the result and the two slices as
\* the call leaves them
CallStrsEquals ==
    /\ fout = None
    /\ fout' = StrsEquals(fa, fb)
    /\ UNCHANGED <<fa, fb, resolverVars, sqlVars, session, otherVars>>

NextStrs == CallStrsEquals

SpecStrs == InitStrs /\ [][NextStrs]_vars

\* C8: StrsEquals(A, B) is true if and only if A and B hold the same strings
\* with the same multiplicities, in any order.
C8_StrsEqualsIffSameMultiset ==
    fout # None => (fout.eq <=> IsPermutation(fa, fb))

\* two lists of three strings, one repeated, in different orders
C8_Witness ==
    /\ fout # None /\ fout.eq
    /\ Len(fa) = 3 /\ fa # fb
    /\ Cardinality(Range(fa)) = 2

(***************************************************************************)
(* insertSqlClause on its own: queries put together from up to MaxTokens   *)
(* pieces, and two clauses inserted one after the other                    *)
(***************************************************************************)
TokSelect == <<97>>                                                  \* "a"
TokWhere == <<32, 87, 72, 69, 82, 69, 32, 98>>                       \* " WHERE b"
TokGroupBy == <<32, 71, 82, 79, 85, 80, 32, 66, 89, 32, 99>>         \* " GROUP BY c"
TokOrderBy == <<32, 111, 114, 100, 101, 114, 32, 98, 121, 32, 100>>  \* " order by d"
TokLimit == <<32, 76, 73, 77, 73, 84, 32, 49>>                       \* " LIMIT 1"
TokForUpdate == <<32, 102, 111, 114, 32, 117, 112, 100, 97, 116, 101>> \* " for update"
Tokens == {TokSelect, TokWhere, TokGroupBy, TokOrderBy, TokLimit, TokForUpdate}

\* "SELECT * FROM t WHERE a=1 ORDER BY b LIMIT 10"
SqlScenario ==
    <<83, 69, 76, 69, 67, 84, 32, 42, 32, 70, 82, 79, 77, 32, 116, 32, 87, 72, 69, 82,
      69, 32, 97, 61, 49, 32, 79, 82, 68, 69, 82, 32, 66, 89, 32, 98, 32, 76, 73, 77,
      73, 84, 32, 49, 48>>
\* "id in (:e0,:e1)"
ClauseScenario == <<105, 100, 32, 105, 110, 32, 40, 58, 101, 48, 44, 58, 101, 49, 41>>
\* "id in (:id0)": the clause buildEntityIds makes for the column id
ClauseId == <<105, 100, 32, 105, 110, 32, 40, 58, 105, 100, 48, 41>>
\* "limit_id in (:limit_id0)": the same for the column limit_id
ClauseLimitId ==
    <<108, 105, 109, 105, 116, 95, 105, 100, 32, 105, 110, 32, 40, 58, 108, 105, 109,
      105, 116, 95, 105, 100, 48, 41>>
Clauses == {ClauseId, ClauseLimitId, ClauseScenario}

\* the concatenation of a sequence of strings
RECURSIVE Concat(_)
Concat(ss) == IF ss = <<>> THEN <<>> ELSE Head(ss) \o Concat(Tail(ss))

Queries == {Concat(ts) : ts \in SeqsUpTo(Tokens, MaxTokens)} \cup {SqlScenario}

InitSql ==
    /\ ResolverIdle
    /\ fa = Idle /\ fb = Idle /\ fout = Idle
    /\ q \in Queries
    /\ c1 \in Clauses
    /\ c2 \in Clauses
    /\ out1 = None
    /\ out2 = None
    /\ session = Idle
    /\ BuildIdle /\ TxIdle /\ ReplIdle /\ RunIdle

\* out1 := insertSqlClause(q, c1)
InsertFirst ==
    /\ out1 = None
    /\ out1' = insertSqlClause(q, c1)
    /\ UNCHANGED <<q, c1, c2, out2, resolverVars, strsVars, session, otherVars>>

\* out2 := insertSqlClause(out1, c2)
InsertSecond ==
    /\ out1 # None
    /\ out2 = None
    /\ out2' = insertSqlClause(out1, c2)
    /\ UNCHANGED <<q, c1, c2, out1, resolverVars, strsVars, session, otherVars>>

NextSql == InsertFirst \/ InsertSecond

SpecSql == InitSql /\ [][NextSql]_vars

\* the trailing-clause keywords
ExtraKeywords == {KwGroupBy, KwOrderBy, KwLimit, KwForUpdate}

\* some trailing-clause keyword occurs in the lower-cased SQL at index i
KeywordAt(qs, i) == \E kw \in ExtraKeywords : OccursAt(ToLower(qs), kw, i)

\* the smallest index at which a trailing-clause keyword occurs in the
\* lower-cased SQL; the end of the string when none occurs
SpliceIndex(qs) ==
    IF \E i \in 0..Len(qs) : KeywordAt(qs, i)
    THEN CHOOSE i \in 0..Len(qs) :
            KeywordAt(qs, i) /\ \A k \in 0..(i - 1) : ~KeywordAt(qs, k)
    ELSE Len(qs)

\* " and " when the lower-cased SQL contains "where", else " where "
ClausePrefix(qs) ==
    IF \E i \in 0..Len(qs) : OccursAt(ToLower(qs), KwWhere, i) THEN StrAnd ELSE StrWhere

\* sql[:idx] + prefix + clause + sql[idx:]
Spliced(qs, clause) ==
    SubSeq(qs, 1, SpliceIndex(qs)) \o ClausePrefix(qs) \o clause
        \o SubSeq(qs, SpliceIndex(qs) + 1, Len(qs))

\* C9: insertSqlClause(sql, clause) is sql[:idx] + prefix + clause +
\* sql[idx:], idx the smallest index of a trailing-clause keyword in the
\* lower-cased SQL (its end when there is none), prefix " and " when the
\* lower-cased SQL contains "where" and " where " otherwise.
C9_InsertSqlClauseSplices ==
    out1 # None => out1 = Spliced(q, c1)

\* C10: insertSqlClause(insertSqlClause(q, c1), c2) is q with c1 and then c2
\* inserted once each before the trailing part of q, the first introduced by
\* " where " or " and ", the second by " and ".
C10_TwoClausesInOrder ==
    out2 # None =>
        \E p1 \in {StrWhere, StrAnd} :
            out2 = SubSeq(q, 1, SpliceIndex(q)) \o p1 \o c1 \o StrAnd \o c2
                       \o SubSeq(q, SpliceIndex(q) + 1, Len(q))

(***************************************************************************)
(* buildEntityIds on its own: shard maps over up to two shards with up to  *)
(* MaxKids keyspace ids each, and caller bind variables whose names may or *)
(* may not look like the generated ones                                    *)
(***************************************************************************)
KidPool == {"k1", "k2"}
BuildShardMaps ==
    UNION {[S -> SeqsUpTo(KidPool, MaxKids)] : S \in SUBSET {ShardLo, ShardHi}}
BuildQueries == {QuerySql, TokSelect, TokSelect \o TokWhere, TokLimit}
ColumnV == <<118>>                                          \* "v"
BuildColumns == {EntityColumnName, ColumnV}
BuildBindVars ==
    {[n \in {} |-> "x"],
     QueryBindVars,                                         \* {"v": "v"}
     [n \in {<<105, 100, 48>>} |-> "x"],                    \* {"id0": "x"}
     [n \in {<<118>>, <<105, 100, 49>>} |-> "y"]}           \* {"v": "y", "id1": "y"}

InitBuild ==
    /\ ResolverIdle
    /\ fa = Idle /\ fb = Idle /\ fout = Idle
    /\ q = Idle /\ c1 = Idle /\ c2 = Idle /\ out1 = Idle /\ out2 = Idle
    /\ session = Idle
    /\ bArgs \in [shardMap : BuildShardMaps, qSql : BuildQueries,
                  entityColName : BuildColumns, qBindVars : BuildBindVars]
    /\ bOut = None
    /\ TxIdle /\ ReplIdle /\ RunIdle

\* bOut := buildEntityIds(shardMap, qSql, entityColName, qBindVars); the
\* arguments are only read
CallBuildEntityIds ==
    /\ bOut = None
    /\ \E order \in Orders(DOMAIN bArgs.shardMap) :
        bOut' = buildEntityIds(bArgs.shardMap, bArgs.qSql, bArgs.entityColName,
                               bArgs.qBindVars, order)
    /\ UNCHANGED <<bArgs, resolverVars, strsVars, sqlVars, session,
                   txVars, replVars, runVars>>

NextBuild == CallBuildEntityIds

SpecBuild == InitBuild /\ [][NextBuild]_vars

\* the name of the i-th generated bind variable (i < 10)
EntityVarName(col, i) == col \o <<48 + i>>

\* "col in (:col0, :col1, ...)" over n variables
InClause(col, n) ==
    LET F[i \in 0..n] ==
            IF i = 0 THEN <<>>
            ELSE F[i - 1] \o (IF i > 1 THEN <<44, 32>> ELSE <<>>)
                 \o <<58>> \o EntityVarName(col, i - 1)
    IN  col \o <<32, 105, 110, 32, 40>> \o F[n] \o <<41>>

\* the per-shard bind variables hold the caller's variables unchanged and
\* the shard's keyspace ids under the generated names
BindVarsAugmented(a, r) ==
    \A s \in DOMAIN a.shardMap :
        LET kids == a.shardMap[s]
            bv == r.bindVars[s]
            names == {EntityVarName(a.entityColName, i - 1) : i \in 1..Len(kids)}
        IN  /\ DOMAIN bv = DOMAIN a.qBindVars \cup names
            /\ \A n \in DOMAIN a.qBindVars : bv[n] = a.qBindVars[n]
            /\ \A i \in 1..Len(kids) : bv[EntityVarName(a.entityColName, i - 1)] = kids[i]

\* the per-shard SQL is the query with the in-clause spliced in
SqlsSpliced(a, r) ==
    \A s \in DOMAIN a.shardMap :
        r.sqls[s] = Spliced(a.qSql, InClause(a.entityColName, Len(a.shardMap[s])))

\* reading the generated variables back, shard by shard, gives the shard map
Regrouped(a, r) ==
    [s \in Range(r.shards) |->
        [i \in 1..Len(a.shardMap[s]) |->
            r.bindVars[s][EntityVarName(a.entityColName, i - 1)]]] = a.shardMap

\* C11: buildEntityIds returns every shard of the shard map exactly once,
\* and for each shard the caller's bind variables with their original values
\* plus the shard's keyspace ids under the names column0, column1, ...,
\* together with the query with "column in (:column0, ...)" spliced in;
\* regrouping the output by shard gives back the shard map.
C11_BuildEntityIdsAugments ==
    bOut # None =>
        /\ Len(bOut.shards) = Cardinality(DOMAIN bArgs.shardMap)
        /\ Range(bOut.shards) = DOMAIN bArgs.shardMap
        /\ DOMAIN bOut.sqls = DOMAIN bArgs.shardMap
        /\ DOMAIN bOut.bindVars = DOMAIN bArgs.shardMap
        /\ BindVarsAugmented(bArgs, bOut)
        /\ SqlsSpliced(bArgs, bOut)
        /\ Regrouped(bArgs, bOut)

(***************************************************************************)
(* SafeSession and ScatterConn.Commit / Rollback.  Each SafeSession        *)
(* operation runs under the session's lock, so the parallel sub-calls of a *)
(* fan-out interleave whole operations.                                    *)
(***************************************************************************)
SubIds == 1..MaxSubs
TxIds == 1..MaxTx
\* the backends the sub-calls go to
TxTriples ==
    {<<QueryKeyspace, ShardLo, "master">>, <<QueryKeyspace, ShardHi, "master">>,
     <<QueryKeyspace, ShardHi, "replica">>}

\* the (keyspace, shard, tablet_type) of a shard-session
Triple(ss) == <<ss.Keyspace, ss.Shard, ss.TabletType>>

\* find(keyspace, shard, tablet_type): the transaction id, 0 when not present
Find(sessn, ks, sh, tt) ==
    LET hits == {i \in 1..Len(sessn.ShardSessions) :
                    Triple(sessn.ShardSessions[i]) = <<ks, sh, tt>>}
    IN  IF hits = {} THEN 0
        ELSE sessn.ShardSessions[CHOOSE i \in hits : \A j \in hits : i <= j].TransactionId

\* Faulty variant of SafeAppend: appends without looking at the set.
SafeAppendUnchecked(sessn, ss) ==
    [ok |-> TRUE,
     session |-> [sessn EXCEPT !.ShardSessions = Append(@, ss)]]

\* append(shard_session): fails when a different entry exists for the same
\* triple; the set holds an entry once
SafeAppend(sessn, ss) ==
    LET same == {i \in 1..Len(sessn.ShardSessions) :
                    Triple(sessn.ShardSessions[i]) = Triple(ss)}
    IN  IF \E i \in same : sessn.ShardSessions[i] # ss
        THEN [ok |-> FALSE, session |-> sessn]
        ELSE IF same # {}
        THEN [ok |-> TRUE, session |-> sessn]
        ELSE [ok |-> TRUE,
              session |-> [sessn EXCEPT !.ShardSessions = Append(@, ss)]]

\* reset(): clear all shard-sessions; the transaction is over
Reset(sessn) == [InTransaction |-> FALSE, ShardSessions |-> <<>>]

CmIdle == [pc |-> "idle"]
NoCall == [op |-> "none"]

InitSession ==
    /\ ResolverIdle
    /\ fa = Idle /\ fb = Idle /\ fout = Idle
    /\ q = Idle /\ c1 = Idle /\ c2 = Idle /\ out1 = Idle /\ out2 = Idle
    /\ session = [InTransaction |-> FALSE, ShardSessions |-> <<>>]
    /\ subs = NoCall
    /\ cm = CmIdle
    /\ nextTx = 1
    /\ BuildIdle /\ ReplIdle /\ RunIdle

\* no Commit / Rollback is running on the session
NoCommitRunning == cm.pc \in {"idle", "done"}

\* the client begins a transaction on the session
BeginTx ==
    /\ NoCommitRunning
    /\ ~session.InTransaction
    /\ session' = [session EXCEPT !.InTransaction = TRUE]
    /\ subs' = NoCall
    /\ cm' = CmIdle
    /\ UNCHANGED <<nextTx, resolverVars, strsVars, sqlVars, buildVars, replVars, runVars>>

\* sub-call i looks its shard up in the session
SubFind(i) ==
    /\ NoCommitRunning
    /\ session.InTransaction
    /\ \E t \in TxTriples :
        subs' = [op |-> "find", sub |-> i, triple |-> t,
                 result |-> Find(session, t[1], t[2], t[3])]
    /\ UNCHANGED <<session, cm, nextTx, resolverVars, strsVars, sqlVars,
                   buildVars, replVars, runVars>>

\* sub-call i appends a shard-session it holds
SubAppend(i) ==
    /\ NoCommitRunning
    /\ session.InTransaction
    /\ \E t \in TxTriples, id \in TxIds :
        LET ss == ShardSession(t[1], t[2], t[3], id)
            r == SafeAppend(session, ss)
        IN  /\ session' = r.session
            /\ subs' = [op |-> "append", sub |-> i, entry |-> ss, ok |-> r.ok]
    /\ UNCHANGED <<cm, nextTx, resolverVars, strsVars, sqlVars,
                   buildVars, replVars, runVars>>

\* sub-call i, on first contact with its shard, opens a transaction there
\* and records it: find-or-insert, serialized
SubFindOrInsert(i) ==
    /\ NoCommitRunning
    /\ session.InTransaction
    /\ nextTx <= MaxTx
    /\ \E t \in TxTriples :
        /\ Find(session, t[1], t[2], t[3]) = 0
        /\ LET ss == ShardSession(t[1], t[2], t[3], nextTx)
               r == SafeAppend(session, ss)
           IN  /\ session' = r.session
               /\ subs' = [op |-> "find-or-insert", sub |-> i, entry |-> ss, ok |-> r.ok]
    /\ nextTx' = nextTx + 1
    /\ UNCHANGED <<cm, resolverVars, strsVars, sqlVars, buildVars, replVars, runVars>>

\* the error of a per-shard commit or rollback
ShardTxError(ss) == [kind |-> "error", msg |-> "transaction call failed", shard |-> ss.Shard]

\* Faulty variant of FirstError: the latest error wins.
LastError(cur, e) == IF e # NoErr THEN e ELSE cur

\* return the first error
FirstError(cur, e) == IF cur = NoErr THEN e ELSE cur

\* a Commit / Rollback over the session starts at its first shard-session
TxCallStart(name, safe) ==
    [pc |-> "run", op |-> name, i |-> 1, err |-> NoErr, visited |-> <<>>,
     targets |-> safe.Session.ShardSessions]

\* Resolver.Commit: res.scatterConn.Commit(context, NewSafeSession(inSession))
Commit ==
    /\ NoCommitRunning
    /\ cm' = TxCallStart("Commit", NewSafeSession(session))
    /\ subs' = NoCall
    /\ UNCHANGED <<session, nextTx, resolverVars, strsVars, sqlVars,
                   buildVars, replVars, runVars>>

\* Resolver.Rollback: res.scatterConn.Rollback(context, NewSafeSession(inSession))
Rollback ==
    /\ NoCommitRunning
    /\ cm' = TxCallStart("Rollback", NewSafeSession(session))
    /\ subs' = NoCall
    /\ UNCHANGED <<session, nextTx, resolverVars, strsVars, sqlVars,
                   buildVars, replVars, runVars>>

\* ScatterConn.Commit / Rollback: the per-shard call on the next
\* shard-session; a failure is logged and the iteration goes on
TxShardCall ==
    /\ cm.pc = "run"
    /\ cm.i <= Len(session.ShardSessions)
    /\ LET ss == session.ShardSessions[cm.i]
       IN  \E e \in {NoErr, ShardTxError(ss)} :
            cm' = [cm EXCEPT !.i = @ + 1,
                             !.err = FirstError(@, e),
                             !.visited = Append(@, [entry |-> ss, err |-> e])]
    /\ UNCHANGED <<session, subs, nextTx, resolverVars, strsVars, sqlVars,
                   buildVars, replVars, runVars>>

\* ScatterConn.Commit / Rollback: clear the session's shard-set and return
TxReturn ==
    /\ cm.pc = "run"
    /\ cm.i > Len(session.ShardSessions)
    /\ session' = Reset(session)
    /\ cm' = [cm EXCEPT !.pc = "done"]
    /\ UNCHANGED <<subs, nextTx, resolverVars, strsVars, sqlVars,
                   buildVars, replVars, runVars>>

NextSession ==
    \/ BeginTx
    \/ \E i \in SubIds : SubFind(i)
    \/ \E i \in SubIds : SubAppend(i)
    \/ \E i \in SubIds : SubFindOrInsert(i)
    \/ Commit
    \/ Rollback
    \/ TxShardCall
    \/ TxReturn

SpecSession == InitSession /\ [][NextSession]_vars

\* no two shard-sessions of the list have the same triple
UniqueTriples(list) ==
    \A i, j \in 1..Len(list) : i # j => Triple(list[i]) # Triple(list[j])

\* the list holds an entry for the triple of ss that is not ss
HoldsOther(list, ss) ==
    \E i \in 1..Len(list) : Triple(list[i]) = Triple(ss) /\ list[i] # ss

\* one step of the session: the set stays, or grows by one entry of a new
\* triple, or is cleared as a whole by the reset of a Commit / Rollback; an
\* append against a different entry of the same triple fails
SessionStep ==
    LET old == session.ShardSessions
        new == session'.ShardSessions
    IN  /\ \/ new = old
           \/ new = <<>> /\ cm.pc = "run" /\ cm'.pc = "done"
           \/ \E ss \in Range(new) :
                /\ new = Append(old, ss)
                /\ \A i \in 1..Len(old) : Triple(old[i]) # Triple(ss)
        /\ (subs' # subs /\ subs'.op = "append" /\ HoldsOther(old, subs'.entry))
              => (~subs'.ok /\ new = old)

\* C12: a (keyspace, shard, tablet_type) triple appears at most once in
\* shard_sessions, whatever the sub-calls and the client do; an append
\* against a different entry of the same triple fails and changes nothing,
\* and entries leave the set only when a reset clears it.
C12_TriplesUnique ==
    [](session # Idle => UniqueTriples(session.ShardSessions)) /\ [][SessionStep]_vars

\* an append of the second sub-call failed against a full session
C12_Witness ==
    /\ subs.op = "append" /\ subs.sub = 2 /\ ~subs.ok
    /\ Len(session.ShardSessions) = 2
    /\ HoldsOther(session.ShardSessions, subs.entry)

\* the first error among the per-shard outcomes, nil when there is none
FirstOf(visited) ==
    LET bad == {i \in 1..Len(visited) : visited[i].err # NoErr}
    IN  IF bad = {} THEN NoErr
        ELSE visited[CHOOSE i \in bad : \A j \in bad : i <= j].err

\* C13: Commit and Rollback visit the shard-sessions one after another in
\* list order, go on after a per-shard failure, and when they have returned
\* every shard-session was visited, the session's set is empty, and Commit
\* returned the first per-shard error (nil if none).
C13_CommitBestEffort ==
    /\ cm # Idle /\ cm.pc \in {"run", "done"} =>
        /\ Len(cm.visited) <= Len(cm.targets)
        /\ \A k \in 1..Len(cm.visited) : cm.visited[k].entry = cm.targets[k]
    /\ cm # Idle /\ cm.pc = "done" =>
        /\ Len(cm.visited) = Len(cm.targets)
        /\ session.ShardSessions = <<>>
        /\ cm.op = "Commit" => cm.err = FirstOf(cm.visited)

\* a Commit over two shard-sessions that failed on both has returned
C13_Witness ==
    /\ cm # Idle /\ cm.pc = "done" /\ cm.op = "Commit"
    /\ Len(cm.targets) = 2
    /\ cm.visited[1].err # NoErr
    /\ cm.visited[2].err # NoErr

(***************************************************************************)
(* The shard replication graph (topo/replication.go).  The topology server *)
(* keeps one ShardReplication object per cell; an update of it is one      *)
(* atomic read-modify-write of the server.                                 *)
(***************************************************************************)
Cells == {"ca", "cb"}
TabletAlias(cell, uid) == [Cell |-> cell, Uid |-> uid]
ZeroAlias == [Cell |-> "", Uid |-> 0]
IsZero(alias) == alias = ZeroAlias
ReplTablets == {TabletAlias("ca", 1), TabletAlias("ca", 2), TabletAlias("cb", 3)}
ReplMasters == {TabletAlias("ca", 8), TabletAlias("cb", 9)}
ReplicationLink(alias, parent) == [TabletAlias |-> alias, Parent |-> parent]

NoNode == [kind |-> "nonode"]                       \* the object does not exist
ShardReplication(links) == [ReplicationLinks |-> links]
ErrNoNode == PlainError("node doesn't exist")
ErrNodeExists == PlainError("node already exists")
ErrTopo == PlainError("topology unreachable")

\* what a tablet lookup finds: a tablet in use, a scrapped one, none, or an
\* error of the server
TabletStates == {"ok", "scrap", "nonode", "err"}

\* sr.GetReplicationLink(tabletAlias)
GetReplicationLink(sr, tabletAlias) ==
    LET hits == {i \in 1..Len(sr.ReplicationLinks) :
                    sr.ReplicationLinks[i].TabletAlias = tabletAlias}
    IN  IF hits = {}
        THEN [link |-> ReplicationLink(ZeroAlias, ZeroAlias), err |-> ErrNoNode]
        ELSE [link |-> sr.ReplicationLinks[CHOOSE i \in hits : \A j \in hits : i <= j],
              err |-> NoErr]

\* Faulty variant of AddRecord: appends without looking for an existing link.
AddRecordAlwaysAppend(srLinks, tabletAlias, parent) ==
    IF IsZero(parent) THEN srLinks
    ELSE Append(srLinks, ReplicationLink(tabletAlias, parent))

\* Faulty variant of AddRecord: keeps the parent of an existing link.
AddRecordKeepParent(srLinks, tabletAlias, parent) ==
    LET F[i \in 0..Len(srLinks)] ==
            IF i = 0 THEN [links |-> <<>>, found |-> FALSE]
            ELSE LET p == F[i - 1]
                     link == srLinks[i]
                 IN  IF link.TabletAlias = tabletAlias
                     THEN IF p.found THEN p
                          ELSE IF IsZero(parent) THEN [links |-> p.links, found |-> TRUE]
                          ELSE [links |-> Append(p.links, link), found |-> TRUE]
                     ELSE [links |-> Append(p.links, link), found |-> p.found]
        r == F[Len(srLinks)]
    IN  IF ~r.found /\ ~IsZero(parent)
        THEN Append(r.links, ReplicationLink(tabletAlias, parent))
        ELSE r.links

\* the update function f of AddShardReplicationRecord: the new links
AddRecord(srLinks, tabletAlias, parent) ==
    LET F[i \in 0..Len(srLinks)] ==
            IF i = 0 THEN [links |-> <<>>, found |-> FALSE]
            ELSE LET p == F[i - 1]
                     link == srLinks[i]
                 IN  IF link.TabletAlias = tabletAlias
                     THEN IF p.found THEN p
                          ELSE IF IsZero(parent) THEN [links |-> p.links, found |-> TRUE]
                          ELSE [links |-> Append(p.links, [link EXCEPT !.Parent = parent]),
                                found |-> TRUE]
                     ELSE [links |-> Append(p.links, link), found |-> p.found]
        r == F[Len(srLinks)]
    IN  IF ~r.found /\ ~IsZero(parent)
        THEN Append(r.links, ReplicationLink(tabletAlias, parent))
        ELSE r.links

\* the update function of RemoveShardReplicationRecord: the new links
RemoveRecord(srLinks, tabletAlias) ==
    SelectSeq(srLinks, LAMBDA link : link.TabletAlias # tabletAlias)

\* the update closures handed to the topology server, and their call
AddClosure(tabletAlias, parent) ==
    [fn |-> "add", tabletAlias |-> tabletAlias, parent |-> parent]
RemoveClosure(tabletAlias) == [fn |-> "remove", tabletAlias |-> tabletAlias]
CallClosure(f, srLinks) ==
    IF f.fn = "add" THEN AddRecord(srLinks, f.tabletAlias, f.parent)
    ELSE RemoveRecord(srLinks, f.tabletAlias)

\* ts.UpdateShardReplicationFields(cell, ..., f): (graph after, err)
UpdateShardReplicationFields(r, cell, f) ==
    IF r[cell] = NoNode
    THEN {[repl |-> r, err |-> ErrNoNode], [repl |-> r, err |-> ErrTopo]}
    ELSE {[repl |-> [r EXCEPT ![cell] = ShardReplication(CallClosure(f, @.ReplicationLinks))],
           err |-> NoErr],
          [repl |-> r, err |-> ErrTopo]}

\* ts.CreateShardReplication(cell, ..., &ShardReplication{}): (graph after, err)
CreateShardReplication(r, cell) ==
    IF r[cell] # NoNode
    THEN {[repl |-> r, err |-> ErrNodeExists]}
    ELSE {[repl |-> [r EXCEPT ![cell] = ShardReplication(<<>>)], err |-> NoErr],
          [repl |-> r, err |-> ErrTopo]}

\* AddShardReplicationRecord(ts, keyspace, shard, tabletAlias, parent):
\* (graph after, err)
AddOutcomes(r, tabletAlias, parent) ==
    LET f == AddClosure(tabletAlias, parent)
        after(u1) ==
            IF u1.err = ErrNoNode
            THEN UNION {IF c.err # NoErr THEN {c}
                        ELSE UpdateShardReplicationFields(c.repl, tabletAlias.Cell, f) :
                            c \in CreateShardReplication(u1.repl, tabletAlias.Cell)}
            ELSE {u1}
    IN  UNION {after(u1) : u1 \in UpdateShardReplicationFields(r, tabletAlias.Cell, f)}

\* RemoveShardReplicationRecord(ts, keyspace, shard, tabletAlias):
\* (graph after, err)
RemoveOutcomes(r, tabletAlias) ==
    LET f == RemoveClosure(tabletAlias)
    IN  UpdateShardReplicationFields(r, tabletAlias.Cell, f)

\* ts.GetShardReplication(cell, keyspace, shard): (sri, err)
GetShardReplication(r, cell) ==
    IF r[cell] = NoNode
    THEN {[sri |-> NoNode, err |-> ErrNoNode]}
    ELSE {[sri |-> r[cell], err |-> NoErr], [sri |-> NoNode, err |-> ErrTopo]}

\* Faulty variant of FixFirstProblem: the last link that is not kept.
FixLastProblem(links, tab) ==
    LET bad == {i \in 1..Len(links) : tab[links[i].TabletAlias] # "ok"}
    IN  IF bad = {} THEN 0 ELSE CHOOSE i \in bad : \A j \in bad : j <= i

\* the loop of FixShardReplication: the index of the first link whose tablet
\* lookup does not end in "Keeping tablet", 0 when all are kept
FixFirstProblem(links, tab) ==
    LET bad == {i \in 1..Len(links) : tab[links[i].TabletAlias] # "ok"}
    IN  IF bad = {} THEN 0 ELSE CHOOSE i \in bad : \A j \in bad : i <= j

\* FixShardReplication(ts, cell, keyspace, shard) when the tablets are as in
\* tab: (read error, graph after, err)
FixOutcomes(r, cell, tab) ==
    UNION {IF g.err # NoErr
           THEN {[readErr |-> g.err, repl |-> r, err |-> g.err]}
           ELSE LET links == g.sri.ReplicationLinks
                    i == FixFirstProblem(links, tab)
                IN  IF i = 0
                    THEN {[readErr |-> NoErr, repl |-> r, err |-> NoErr]}
                    ELSE IF tab[links[i].TabletAlias] = "err"
                    THEN {[readErr |-> NoErr, repl |-> r, err |-> ErrTopo]}
                    ELSE {[readErr |-> NoErr, repl |-> o.repl, err |-> o.err] :
                            o \in RemoveOutcomes(r, links[i].TabletAlias)} :
           g \in GetShardReplication(r, cell)}

\* the links of a list that belong to the tablet, and those that do not
LinksOf(links, alias) == SelectSeq(links, LAMBDA link : link.TabletAlias = alias)
LinksOfOthers(links, alias) == SelectSeq(links, LAMBDA link : link.TabletAlias # alias)
NoDuplicateAlias(links) ==
    \A i, j \in 1..Len(links) : i # j => links[i].TabletAlias # links[j].TabletAlias
GraphClean(r) ==
    \A cell \in Cells : r[cell] # NoNode => NoDuplicateAlias(r[cell].ReplicationLinks)

\* the tablets FixShardReplication looks up: those with a link in the cell
LinkedTablets(r, cell) ==
    IF r[cell] = NoNode THEN {}
    ELSE {r[cell].ReplicationLinks[i].TabletAlias : i \in 1..Len(r[cell].ReplicationLinks)}

\* the graphs at the start: per cell no object, or up to MaxLinks links of
\* tablets of that cell (a tablet's link is written to the object of the
\* tablet's own cell)
InitLinks(cell) ==
    SeqsUpTo({ReplicationLink(t, p) : t \in {x \in ReplTablets : x.Cell = cell},
                                       p \in ReplMasters}, MaxLinks)

InitRepl ==
    /\ ResolverIdle
    /\ fa = Idle /\ fb = Idle /\ fout = Idle
    /\ q = Idle /\ c1 = Idle /\ c2 = Idle /\ out1 = Idle /\ out2 = Idle
    /\ session = Idle
    /\ repl \in [Cells -> {NoNode}
                    \cup {ShardReplication(l) : l \in InitLinks("ca") \cup InitLinks("cb")}]
    /\ \A cell \in Cells : repl[cell] # NoNode => repl[cell].ReplicationLinks \in InitLinks(cell)
    /\ rcall = [op |-> "none", startedClean |-> GraphClean(repl)]
    /\ BuildIdle /\ TxIdle /\ RunIdle

AddShardReplicationRecord ==
    /\ \E tabletAlias \in ReplTablets, parent \in ReplMasters \cup {ZeroAlias} :
       \E o \in AddOutcomes(repl, tabletAlias, parent) :
            /\ repl' = o.repl
            /\ rcall' = [op |-> "Add", tabletAlias |-> tabletAlias, parent |-> parent,
                         before |-> repl, err |-> o.err,
                         startedClean |-> rcall.startedClean]
    /\ UNCHANGED <<resolverVars, strsVars, sqlVars, session, buildVars, txVars, runVars>>

RemoveShardReplicationRecord ==
    /\ \E tabletAlias \in ReplTablets :
       \E o \in RemoveOutcomes(repl, tabletAlias) :
            /\ repl' = o.repl
            /\ rcall' = [op |-> "Remove", tabletAlias |-> tabletAlias,
                         before |-> repl, err |-> o.err,
                         startedClean |-> rcall.startedClean]
    /\ UNCHANGED <<resolverVars, strsVars, sqlVars, session, buildVars, txVars, runVars>>

FixShardReplication ==
    /\ \E cell \in Cells :
       \E tab \in [LinkedTablets(repl, cell) -> TabletStates] :
       \E o \in FixOutcomes(repl, cell, tab) :
            /\ repl' = o.repl
            /\ rcall' = [op |-> "Fix", cell |-> cell, tab |-> tab, readErr |-> o.readErr,
                         before |-> repl, err |-> o.err,
                         startedClean |-> rcall.startedClean]
    /\ UNCHANGED <<resolverVars, strsVars, sqlVars, session, buildVars, txVars, runVars>>

NextRepl ==
    \/ AddShardReplicationRecord
    \/ RemoveShardReplicationRecord
    \/ FixShardReplication

SpecRepl == InitRepl /\ [][NextRepl]_vars

\* the links of a cell, none when the object does not exist
CellLinks(r, cell) == IF r[cell] = NoNode THEN <<>> ELSE r[cell].ReplicationLinks

\* the latest call was a successful AddShardReplicationRecord
Added == rcall.op = "Add" /\ rcall.err = NoErr

\* C14: a graph that starts without two links of one tablet never holds two
\* links of one tablet, whatever AddShardReplicationRecord,
\* RemoveShardReplicationRecord and FixShardReplication calls are made; and
\* after AddShardReplicationRecord for a tablet the list holds at most one
\* link of that tablet even if it held several before.
C14_OneLinkPerTablet ==
    rcall # Idle =>
        /\ rcall.startedClean => GraphClean(repl)
        /\ Added =>
            Len(LinksOf(CellLinks(repl, rcall.tabletAlias.Cell), rcall.tabletAlias)) <= 1

\* an Add for a tablet that had two links left one
C14_Witness ==
    /\ rcall # Idle /\ Added
    /\ Len(LinksOf(CellLinks(rcall.before, rcall.tabletAlias.Cell), rcall.tabletAlias)) = 2
    /\ Len(LinksOf(CellLinks(repl, rcall.tabletAlias.Cell), rcall.tabletAlias)) = 1

\* the index of the first link of the tablet in a list that has one
FirstLinkIndex(links, alias) ==
    CHOOSE i \in 1..Len(links) :
        /\ links[i].TabletAlias = alias
        /\ \A j \in 1..(i - 1) : links[j].TabletAlias # alias

\* C17: a successful AddShardReplicationRecord(tablet, parent) with a
\* non-zero parent leaves exactly one link of the tablet, with that parent,
\* in the place of its first link or else at the end; with a zero parent it
\* leaves none; the links of the other tablets and the other cells are
\* untouched; a missing object is created and updated the same way; and
\* GetReplicationLink(tablet) then returns that link, or ErrNoNode.
C17_AddSetsParent ==
    (rcall # Idle /\ Added) =>
        LET t == rcall.tabletAlias
            p == rcall.parent
            old == CellLinks(rcall.before, t.Cell)
            new == CellLinks(repl, t.Cell)
        IN  /\ repl[t.Cell] # NoNode
            /\ \A cell \in Cells \ {t.Cell} : repl[cell] = rcall.before[cell]
            /\ LinksOfOthers(new, t) = LinksOfOthers(old, t)
            /\ IF IsZero(p)
               THEN /\ LinksOf(new, t) = <<>>
                    /\ GetReplicationLink(repl[t.Cell], t).err = ErrNoNode
               ELSE /\ LinksOf(new, t) = <<ReplicationLink(t, p)>>
                    /\ GetReplicationLink(repl[t.Cell], t)
                         = [link |-> ReplicationLink(t, p), err |-> NoErr]
                    /\ IF LinksOf(old, t) # <<>>
                       THEN new[FirstLinkIndex(old, t)] = ReplicationLink(t, p)
                       ELSE new = Append(old, ReplicationLink(t, p))

\* an Add gave the tablet of the first of two links another parent
C17_Witness ==
    /\ rcall # Idle /\ Added
    /\ ~IsZero(rcall.parent)
    /\ LET old == CellLinks(rcall.before, rcall.tabletAlias.Cell)
       IN  /\ Len(old) = 2
           /\ old[1].TabletAlias = rcall.tabletAlias
           /\ old[1].Parent # rcall.parent
           /\ old[2].TabletAlias # rcall.tabletAlias

\* the link FixShardReplication stops at: every link before it is kept
StopsAt(links, tab, i) ==
    /\ i \in 1..Len(links)
    /\ tab[links[i].TabletAlias] # "ok"
    /\ \A j \in 1..(i - 1) : tab[links[j].TabletAlias] = "ok"

\* C18: one FixShardReplication call that has read the graph removes at most
\* one tablet, the one of the first link in list order whose tablet is
\* missing or scrapped, and leaves all other links alone; it returns the
\* error of a failed tablet lookup and removes nothing then; and with every
\* link valid it changes nothing and returns nil.
C18_FixFirstProblemOnly ==
    (rcall # Idle /\ rcall.op = "Fix" /\ rcall.readErr = NoErr) =>
        LET links == CellLinks(rcall.before, rcall.cell)
            tab == rcall.tab
        IN  /\ (\A i \in 1..Len(links) : tab[links[i].TabletAlias] = "ok")
                  => (repl = rcall.before /\ rcall.err = NoErr)
            /\ \A i \in 1..Len(links) :
                 StopsAt(links, tab, i) =>
                    IF tab[links[i].TabletAlias] = "err"
                    THEN repl = rcall.before /\ rcall.err # NoErr
                    ELSE \/ repl = rcall.before /\ rcall.err # NoErr
                         \/ /\ rcall.err = NoErr
                            /\ repl = [rcall.before EXCEPT ![rcall.cell] =
                                  ShardReplication(LinksOfOthers(links, links[i].TabletAlias))]

\* a Fix removed the first of two scrapped or missing tablets and kept the other
C18_Witness ==
    /\ rcall # Idle /\ rcall.op = "Fix" /\ rcall.readErr = NoErr /\ rcall.err = NoErr
    /\ LET links == CellLinks(rcall.before, rcall.cell)
       IN  /\ Len(links) = 2
           /\ links[1].TabletAlias # links[2].TabletAlias
           /\ rcall.tab[links[1].TabletAlias] = "scrap"
           /\ rcall.tab[links[2].TabletAlias] = "nonode"
           /\ CellLinks(repl, rcall.cell) = <<links[2]>>

(***************************************************************************)
(* servenv.Run: the main goroutine runs the statements of Run in order,    *)
(* the goroutine started by "go onTermHooks.Fire()" runs beside it, and    *)
(* OnClose registers hooks while the process starts up and serves.         *)
(***************************************************************************)
Hooks == {"hook1", "hook2"}                  \* functions handed to OnClose
EmptyURL == [Scheme |-> "", Host |-> "", Path |-> ""]             \* url.URL{}
ServingURL == [Scheme |-> "http", Host |-> "host:port", Path |-> "/"]

\* Faulty variant of RunOrder: Close before the lameduck sleep.
RunOrderCloseEarly ==
    <<"onRunHooks.Fire", "ServeRPC", "proc.Listen", "hostname", "ListeningURL",
      "go http.Serve", "serveSecurePort", "serveSocketFile", "proc.Wait", "l.Close",
      "go onTermHooks.Fire", "onCloseHooks.Fire", "ListeningURL reset", "time.Sleep">>

\* the statements of Run, with those of Close at the end, in program order
RunOrder ==
    <<"onRunHooks.Fire", "ServeRPC", "proc.Listen", "hostname", "ListeningURL",
      "go http.Serve", "serveSecurePort", "serveSocketFile", "proc.Wait", "l.Close",
      "go onTermHooks.Fire", "time.Sleep", "onCloseHooks.Fire", "ListeningURL reset">>

\* the statement after st, "returned" after the last one
StmtAfter(st) ==
    LET i == CHOOSE k \in 1..Len(RunOrder) : RunOrder[k] = st
    IN  IF i = Len(RunOrder) THEN "returned" ELSE RunOrder[i + 1]

\* the number of clock ticks since the sleep began
Ticks == Cardinality({k \in 1..Len(events) : events[k] = "tick"})

InitRun ==
    /\ ResolverIdle
    /\ fa = Idle /\ fb = Idle /\ fout = Idle
    /\ q = Idle /\ c1 = Idle /\ c2 = Idle /\ out1 = Idle /\ out2 = Idle
    /\ session = Idle
    /\ runPc = RunOrder[1]
    /\ termPc = "none"
    /\ ListeningURL = EmptyURL
    /\ onCloseHooks = {}
    /\ events = <<>>
    /\ BuildIdle /\ TxIdle /\ ReplIdle

\* OnClose(f): onCloseHooks.Add(f)
OnClose ==
    /\ runPc \in Range(RunOrder) \ {"onCloseHooks.Fire", "ListeningURL reset"}
    /\ \E f \in Hooks \ onCloseHooks : onCloseHooks' = onCloseHooks \cup {f}
    /\ UNCHANGED <<runPc, termPc, ListeningURL, events,
                   resolverVars, strsVars, sqlVars, session, buildVars, txVars, replVars>>

\* the statements of Run that only do their work and go on
RunStatement ==
    /\ runPc \in {"onRunHooks.Fire", "ServeRPC", "go http.Serve", "serveSecurePort",
                  "serveSocketFile", "l.Close"}
    /\ events' = Append(events, runPc)
    /\ runPc' = StmtAfter(runPc)
    /\ UNCHANGED <<termPc, ListeningURL, onCloseHooks,
                   resolverVars, strsVars, sqlVars, session, buildVars, txVars, replVars>>

\* l, err := proc.Listen(...) and the host name lookups: log.Fatal on error
ListenOrHostname ==
    /\ runPc \in {"proc.Listen", "hostname"}
    /\ \/ /\ events' = Append(events, runPc)
          /\ runPc' = StmtAfter(runPc)
       \/ /\ events' = Append(events, "log.Fatal")
          /\ runPc' = "exited"
    /\ UNCHANGED <<termPc, ListeningURL, onCloseHooks,
                   resolverVars, strsVars, sqlVars, session, buildVars, txVars, replVars>>

\* ListeningURL = url.URL{Scheme: "http", Host: ..., Path: "/"}
SetListeningURL ==
    /\ runPc = "ListeningURL"
    /\ ListeningURL' = ServingURL
    /\ events' = Append(events, runPc)
    /\ runPc' = StmtAfter(runPc)
    /\ UNCHANGED <<termPc, onCloseHooks,
                   resolverVars, strsVars, sqlVars, session, buildVars, txVars, replVars>>

\* proc.Wait() returns: the process got its signal
ProcWait ==
    /\ runPc = "proc.Wait"
    /\ events' = Append(events, "signal")
    /\ runPc' = StmtAfter(runPc)
    /\ UNCHANGED <<termPc, ListeningURL, onCloseHooks,
                   resolverVars, strsVars, sqlVars, session, buildVars, txVars, replVars>>

\* go onTermHooks.Fire()
GoTermHooks ==
    /\ runPc = "go onTermHooks.Fire"
    /\ termPc' = "started"
    /\ events' = Append(events, runPc)
    /\ runPc' = StmtAfter(runPc)
    /\ UNCHANGED <<ListeningURL, onCloseHooks,
                   resolverVars, strsVars, sqlVars, session, buildVars, txVars, replVars>>

\* the goroutine of the term hooks gets to run them
TermHooksFire ==
    /\ termPc = "started"
    /\ termPc' = "fired"
    /\ events' = Append(events, "onTermHooks.Fire")
    /\ UNCHANGED <<runPc, ListeningURL, onCloseHooks,
                   resolverVars, strsVars, sqlVars, session, buildVars, txVars, replVars>>

\* time.Sleep(*LameduckPeriod): the clock ticks, and the sleep returns when
\* the period is over
Sleep ==
    /\ runPc = "time.Sleep"
    /\ IF Ticks < LameduckTicks
       THEN events' = Append(events, "tick") /\ UNCHANGED runPc
       ELSE events' = Append(events, runPc) /\ runPc' = StmtAfter(runPc)
    /\ UNCHANGED <<termPc, ListeningURL, onCloseHooks,
                   resolverVars, strsVars, sqlVars, session, buildVars, txVars, replVars>>

\* Close: onCloseHooks.Fire() runs every registered hook, in any order
CloseHooksFire ==
    /\ runPc = "onCloseHooks.Fire"
    /\ IF onCloseHooks \subseteq Range(events)
       THEN events' = Append(events, runPc) /\ runPc' = StmtAfter(runPc)
       ELSE /\ \E f \in onCloseHooks \ Range(events) : events' = Append(events, f)
            /\ UNCHANGED runPc
    /\ UNCHANGED <<termPc, ListeningURL, onCloseHooks,
                   resolverVars, strsVars, sqlVars, session, buildVars, txVars, replVars>>

\* Close: ListeningURL = url.URL{}
ResetListeningURL ==
    /\ runPc = "ListeningURL reset"
    /\ ListeningURL' = EmptyURL
    /\ events' = Append(events, runPc)
    /\ runPc' = StmtAfter(runPc)
    /\ UNCHANGED <<termPc, onCloseHooks,
                   resolverVars, strsVars, sqlVars, session, buildVars, txVars, replVars>>

NextRun ==
    \/ OnClose
    \/ RunStatement
    \/ ListenOrHostname
    \/ SetListeningURL
    \/ ProcWait
    \/ GoTermHooks
    \/ TermHooksFire
    \/ Sleep
    \/ CloseHooksFire
    \/ ResetListeningURL

SpecRun == InitRun /\ [][NextRun]_vars

\* the event e has happened, and before position k
Before(e, k) == \E j \in 1..(k - 1) : events[j] = e

\* C15: the run hooks fire before the process starts serving; a hook
\* registered with OnClose fires only after the signal was received, the
\* listener was closed, the term hooks were started (go onTermHooks.Fire())
\* and the whole lameduck period has passed; and once Close is over
\* ListeningURL is the empty URL.
C15_LifecycleOrder ==
    /\ \A k \in 1..Len(events) :
        /\ events[k] \in {"ServeRPC", "go http.Serve"} => Before("onRunHooks.Fire", k)
        /\ events[k] \in Hooks =>
            /\ Before("signal", k)
            /\ Before("l.Close", k)
            /\ Before("go onTermHooks.Fire", k)
            /\ Cardinality({j \in 1..(k - 1) : events[j] = "tick"}) = LameduckTicks
    /\ runPc = "returned" => ListeningURL = EmptyURL

\* Run has returned after firing both close hooks, while the goroutine of
\* the term hooks had not yet run them when the first close hook fired
C15_Witness ==
    /\ runPc = "returned"
    /\ Hooks \subseteq Range(events)
    /\ \E k \in 1..Len(events) :
        /\ events[k] = "onTermHooks.Fire"
        /\ \E j \in 1..(k - 1) : events[j] \in Hooks
====
